---------------------------- MODULE Spec2Model ----------------------------
(***************************************************************************)
(* A model of the rsfts full-text search engine: the analyzer              *)
(* (tokenizer.rs), the inverted index (index.rs), the BM25 ranker          *)
(* (ranking.rs), the storage trees (storage.rs) and the engine that        *)
(* orchestrates them (engine.rs).                                          *)
(*                                                                         *)
(* Text is a sequence of one-character strings; a token is such a          *)
(* sequence until the end of the analysis pipeline, where it is joined     *)
(* into a string (an analyzed term).                                       *)
(***************************************************************************)
EXTENDS Integers, Sequences, FiniteSets, TLC

VARIABLES
    index,           \* SearchEngine.index: [index: term -> posting list, doc_count]
    doc_stats,       \* SearchEngine.doc_stats: doc id -> DocStats
    avg_doc_length,  \* SearchEngine.avg_doc_length, an exact fraction [num, den]
    db,              \* Storage.db: the documents, doc_stats and index trees
    result,          \* what the last completed engine call returned to its caller
    failures,        \* how many storage steps have returned an error so far
    phase,           \* "seq": calls run one at a time; "conc": threads interleave
    thr,             \* per thread: the call in progress, its position and locals
    base             \* the engine state when the concurrent calls were started

vars == <<index, doc_stats, avg_doc_length, db, result, failures, phase, thr, base>>

----------------------------------------------------------------------------
(* Bounds of the model.                                                     *)

\* Largest SearchOptions.limit tried (besides None).
MaxLimit == 2
\* Largest SearchOptions.offset tried.
MaxOffset == 3
\* Longest term list given to search_and and search_or directly.
MaxTerms == 2
\* How many storage steps may return an error in one behaviour.
MaxFailures == 1

\* Option<T>: None is the empty sequence, Some(x) the sequence of x alone.
None == <<>>
Some(x) == <<x>>
IsSome(o) == o # <<>>
Unwrap(o) == o[1]

Range(s) == {s[i] : i \in DOMAIN s}

Contains(s, x) == \E i \in DOMAIN s : s[i] = x

Min(a, b) == IF a < b THEN a ELSE b

RECURSIVE SumOver(_, _)
SumOver(f, S) ==
    IF S = {} THEN 0
    ELSE LET x == CHOOSE y \in S : TRUE IN f[x] + SumOver(f, S \ {x})

RECURSIVE Gcd(_, _)
Gcd(a, b) == IF b = 0 THEN a ELSE Gcd(b, a % b)

\* All orders in which the elements of a finite set can be listed.
Orders(S) ==
    {s \in [1..Cardinality(S) -> S] : \A i, j \in DOMAIN s : i # j => s[i] # s[j]}

----------------------------------------------------------------------------
(* tokenizer.rs                                                             *)

LowerChars == {"a", "c", "d", "e", "g", "h", "o", "r", "s", "t", "u"}
UpperChars == {"C", "D", "T"}

\* char::is_alphanumeric on the characters the model's texts use.
is_alphanumeric(c) == c \in LowerChars \cup UpperChars

\* char lowercasing on the characters the model's texts use.
to_lowercase_char(c) ==
    CASE c = "C" -> "c"
      [] c = "D" -> "d"
      [] c = "T" -> "t"
      [] OTHER -> c

STOPWORDS ==
    {"a", "about", "above", "after", "again", "against", "all", "am", "an", "and",
     "any", "are", "aren't", "as", "at", "be", "because", "been", "before", "being",
     "below", "between", "both", "but", "by", "can't", "cannot", "could", "couldn't",
     "did", "didn't", "do", "does", "doesn't", "doing", "don't", "down", "during",
     "each", "few", "for", "from", "further", "had", "hadn't", "has", "hasn't",
     "have", "haven't", "having", "he", "he'd", "he'll", "he's", "her", "here",
     "here's", "hers", "herself", "him", "himself", "his", "how", "how's", "i",
     "i'd", "i'll", "i'm", "i've", "if", "in", "into", "is", "isn't", "it", "it's",
     "its", "itself", "let's", "me", "more", "most", "mustn't", "my", "myself",
     "no", "nor", "not", "of", "off", "on", "once", "only", "or", "other", "ought",
     "our", "ours", "ourselves", "out", "over", "own", "same", "shan't", "she",
     "she'd", "she'll", "she's", "should", "shouldn't", "so", "some", "such",
     "than", "that", "that's", "the", "their", "theirs", "them", "themselves",
     "then", "there", "there's", "these", "they", "they'd", "they'll", "they're",
     "they've", "this", "those", "through", "to", "too", "under", "until", "up",
     "very", "was", "wasn't", "we", "we'd", "we'll", "we're", "we've", "were",
     "weren't", "what", "what's", "when", "when's", "where", "where's", "which",
     "while", "who", "who's", "whom", "why", "why's", "with", "won't", "would",
     "wouldn't", "you", "you'd", "you'll", "you're", "you've", "your", "yours",
     "yourself", "yourselves"}

\* A fold step that never opens a new token.
tokenize_step_joins(tokens, c) ==
    IF is_alphanumeric(c)
    THEN [tokens EXCEPT ![Len(tokens)] = Append(@, c)]
    ELSE tokens

\* One step of the fold in tokenize: push the character on the last token, or
\* open a new token when the last one is not empty.
tokenize_step(tokens, c) ==
    IF is_alphanumeric(c)
    THEN [tokens EXCEPT ![Len(tokens)] = Append(@, c)]
    ELSE IF tokens[Len(tokens)] # <<>>
         THEN Append(tokens, <<>>)
         ELSE tokens

RECURSIVE tokenize_fold(_, _)
tokenize_fold(tokens, text) ==
    IF text = <<>> THEN tokens
    ELSE tokenize_fold(tokenize_step(tokens, Head(text)), Tail(text))

tokenize(text) ==
    SelectSeq(tokenize_fold(<< <<>> >>, text), LAMBDA s : s # <<>>)

lowercase_filter(tokens) ==
    [i \in DOMAIN tokens |->
        [j \in DOMAIN tokens[i] |-> to_lowercase_char(tokens[i][j])]]

RECURSIVE Join(_)
Join(chars) == IF chars = <<>> THEN "" ELSE Head(chars) \o Join(Tail(chars))

\* A filter that lets every token through.
stopword_filter_keeps_all(tokens) == tokens

stopword_filter(tokens) ==
    SelectSeq(tokens, LAMBDA t : Join(t) \notin STOPWORDS)

Vowels == {"a", "e", "i", "o", "u", "y"}

\* Stemmer::stem (Algorithm::English) on the words of the model's texts: a
\* word of at most two letters is left alone, and step 1a deletes a final
\* "s" (not "ss", not "us") when the part before it holds a vowel that is
\* not the letter right before the "s".  No other step of the algorithm
\* applies to the words used here.
stem(w) ==
    LET n == Len(w) IN
    IF n <= 2 THEN w
    ELSE IF /\ w[n] = "s"
            /\ w[n - 1] \notin {"s", "u"}
            /\ \E i \in 1..(n - 2) : w[i] \in Vowels
         THEN SubSeq(w, 1, n - 1)
         ELSE w

stemmer_filter(tokens) == [i \in DOMAIN tokens |-> Join(stem(tokens[i]))]

\* Tokenizer::analyze: the ordered analyzed terms of a text, each a string.
analyze(text) ==
    stemmer_filter(stopword_filter(lowercase_filter(tokenize(text))))

\* A count that records each term once, however often it occurs.
analyze_with_frequencies_presence(text) ==
    [t \in Range(analyze(text)) |-> 1]

\* Tokenizer::analyze_with_frequencies: term -> number of occurrences.
analyze_with_frequencies(text) ==
    LET tokens == analyze(text) IN
    [t \in Range(tokens) |-> Cardinality({i \in DOMAIN tokens : tokens[i] = t})]

----------------------------------------------------------------------------
(* document.rs                                                              *)

\* Document::searchable_text: title + " " + content.
searchable_text(doc) == doc.title \o <<" ">> \o doc.content

\* The ids, the (title, content) bodies and the query strings the calls of
\* the model draw from.
DocIds == {"1", "2", "3"}

Bodies ==
    { [title |-> <<"C", "a", "t", "s">>,
       content |-> <<"t", "h", "e", " ", "c", "a", "t">>],
      [title |-> <<"D", "o", "g">>,
       content |-> <<"c", "a", "t", ",", " ", "d", "o", "g", "s">>],
      [title |-> <<"T", "h", "e">>,
       content |-> <<"a">>] }

Documents == {[id |-> i, title |-> b.title, content |-> b.content] :
                 i \in DocIds, b \in Bodies}

Queries ==
    { <<"c", "a", "t", "s">>,
      <<"D", "o", "g">>,
      <<"c", "a", "t", ",", "d", "o", "g">>,
      <<"t", "h", "e", " ", "a">>,
      <<"c", "a", "t", " ", "r", "u", "s", "t">>,
      <<>>,
      <<",", " ">> }

\* The queries among them that are empty, hold only separators, or hold
\* only stopwords.
BlankQueries ==
    { <<>>,
      <<",", " ">>,
      <<"t", "h", "e", " ", "a">> }

\* A query that names one term twice, in two inflections.
RepeatedQueries ==
    { <<"c", "a", "t", " ", "c", "a", "t", "s">> }

\* The documents of the batch and ranking behaviours: the empty id next to
\* two others, and two bodies of three tokens each that hold "cat" three
\* times and once.
BatchIds == {"", "1", "2"}

BatchBodies ==
    { [title |-> <<"C", "a", "t", "s">>,
       content |-> <<"c", "a", "t", " ", "c", "a", "t">>],
      [title |-> <<"D", "o", "g">>,
       content |-> <<"c", "a", "t", ",", " ", "d", "o", "g", "s">>] }

BatchDocuments == {[id |-> i, title |-> b.title, content |-> b.content] :
                      i \in BatchIds, b \in BatchBodies}

\* analyze and analyze_with_frequencies, tabulated once for the texts the
\* model's calls use.
AnalyzeTable ==
    [text \in {searchable_text(d) : d \in Documents \cup BatchDocuments}
              \cup Queries \cup RepeatedQueries |->
        [tokens |-> analyze(text), frequencies |-> analyze_with_frequencies(text)]]

Analyzed(text) == AnalyzeTable[text].tokens

\* The DocStats upsert_document builds for a document.
DocStatsOf(doc) ==
    [id |-> doc.id,
     length |-> Len(Analyzed(searchable_text(doc))),
     term_frequencies |-> AnalyzeTable[searchable_text(doc)].frequencies]

----------------------------------------------------------------------------
(* index.rs                                                                 *)

\* InvertedIndex::new
NewIndex == [index |-> [t \in {} |-> <<>>], doc_count |-> 0]

\* An add_document that posts the id under the first token only.
add_document_first_token(idx, doc_id, tokens) ==
    LET unique_tokens == IF tokens = <<>> THEN {} ELSE {tokens[1]}
        entry(t) == IF t \in DOMAIN idx.index THEN idx.index[t] ELSE <<>>
    IN [index |->
            [t \in DOMAIN idx.index \cup unique_tokens |->
                IF t \in unique_tokens
                THEN IF Contains(entry(t), doc_id)
                     THEN entry(t)
                     ELSE Append(entry(t), doc_id)
                ELSE idx.index[t]],
        doc_count |-> idx.doc_count + 1]

\* An add_document that pushes the id without looking for it in the list.
add_document_always_pushes(idx, doc_id, tokens) ==
    LET unique_tokens == Range(tokens)
        entry(t) == IF t \in DOMAIN idx.index THEN idx.index[t] ELSE <<>>
    IN [index |->
            [t \in DOMAIN idx.index \cup unique_tokens |->
                IF t \in unique_tokens
                THEN Append(entry(t), doc_id)
                ELSE idx.index[t]],
        doc_count |-> idx.doc_count + 1]

\* InvertedIndex::add_document
add_document(idx, doc_id, tokens) ==
    LET unique_tokens == Range(tokens)
        entry(t) == IF t \in DOMAIN idx.index THEN idx.index[t] ELSE <<>>
    IN [index |->
            [t \in DOMAIN idx.index \cup unique_tokens |->
                IF t \in unique_tokens
                THEN IF Contains(entry(t), doc_id)
                     THEN entry(t)
                     ELSE Append(entry(t), doc_id)
                ELSE idx.index[t]],
        doc_count |-> idx.doc_count + 1]

\* usize::saturating_sub(1)
saturating_sub1(n) == IF n = 0 THEN 0 ELSE n - 1

\* A remove_document that keeps the posting lists it has emptied.
remove_document_keeps_empty(idx, doc_id) ==
    [index |-> [t \in DOMAIN idx.index |->
                   SelectSeq(idx.index[t], LAMBDA id : id # doc_id)],
     doc_count |-> saturating_sub1(idx.doc_count)]

\* InvertedIndex::remove_document
remove_document(idx, doc_id) ==
    LET retained == [t \in DOMAIN idx.index |->
                        SelectSeq(idx.index[t], LAMBDA id : id # doc_id)]
        kept == {t \in DOMAIN retained : retained[t] # <<>>}
    IN [index |-> [t \in kept |-> retained[t]],
        doc_count |-> saturating_sub1(idx.doc_count)]

\* update_document without its remove_document.
update_document_keeps_old(idx, doc_id, tokens) == add_document(idx, doc_id, tokens)

\* InvertedIndex::update_document
update_document(idx, doc_id, tokens) ==
    add_document(remove_document(idx, doc_id), doc_id, tokens)

\* InvertedIndex::doc_frequency
doc_frequency(idx, token) ==
    IF token \in DOMAIN idx.index THEN Len(idx.index[token]) ELSE 0

\* InvertedIndex::total_documents
total_documents(idx) == idx.doc_count

\* The loop of search_and with a term that has no posting list skipped
\* instead of ending the search.
RECURSIVE search_and_loop_skips_missing(_, _, _)
search_and_loop_skips_missing(idx, tokens, acc) ==
    IF tokens = <<>>
    THEN IF acc.some THEN acc.set ELSE {}
    ELSE IF Head(tokens) \in DOMAIN idx.index
         THEN LET docs_set == Range(idx.index[Head(tokens)])
              IN search_and_loop_skips_missing(idx, Tail(tokens),
                    [some |-> TRUE,
                     set |-> IF acc.some THEN acc.set \cap docs_set ELSE docs_set])
         ELSE search_and_loop_skips_missing(idx, Tail(tokens), acc)

\* The loop of search_and: acc is the Option<HashSet> built so far.
RECURSIVE search_and_loop(_, _, _)
search_and_loop(idx, tokens, acc) ==
    IF tokens = <<>>
    THEN IF acc.some THEN acc.set ELSE {}
    ELSE IF Head(tokens) \in DOMAIN idx.index
         THEN LET docs_set == Range(idx.index[Head(tokens)])
              IN search_and_loop(idx, Tail(tokens),
                    [some |-> TRUE,
                     set |-> IF acc.some THEN acc.set \cap docs_set ELSE docs_set])
         ELSE {}

\* InvertedIndex::search_and, as the HashSet it collects (the Vec returned
\* lists this set in the set's iteration order).
search_and(idx, tokens) ==
    IF tokens = <<>> THEN {}
    ELSE search_and_loop(idx, tokens, [some |-> FALSE, set |-> {}])

\* search_or that stops after the first term.
search_or_first_term(idx, tokens) ==
    IF tokens # <<>> /\ tokens[1] \in DOMAIN idx.index
    THEN Range(idx.index[tokens[1]])
    ELSE {}

\* InvertedIndex::search_or, as the HashSet it collects.
search_or(idx, tokens) ==
    UNION {Range(idx.index[tokens[i]]) :
              i \in {j \in DOMAIN tokens : tokens[j] \in DOMAIN idx.index}}

\* InvertedIndex::stats; avg_docs_per_token as the pair (sum, count).
index_stats(idx) ==
    [total_documents |-> idx.doc_count,
     total_tokens |-> Cardinality(DOMAIN idx.index),
     avg_docs_per_token |->
        IF DOMAIN idx.index = {} THEN <<0, 1>>
        ELSE <<SumOver([t \in DOMAIN idx.index |-> Len(idx.index[t])], DOMAIN idx.index),
               Cardinality(DOMAIN idx.index)>>]

----------------------------------------------------------------------------
(* ranking.rs                                                               *)

\* f64 values are modelled exactly where the code divides two integers (a
\* fraction [num, den] in lowest terms) and in fixed point, in millionths,
\* where it takes a logarithm.
Fraction(a, b) == LET g == Gcd(a, b) IN [num |-> a \div g, den |-> b \div g]

Zero == [num |-> 0, den |-> 1]

\* ln(k) in millionths, rounded, for the integers the model reaches.
LnTable ==
    <<0, 693147, 1098612, 1386294, 1609438, 1791759, 1945910, 2079442,
      2197225, 2302585, 2397895, 2484907, 2564949, 2639057, 2708050, 2772589>>

\* ((total_docs - doc_freq + 0.5) / (doc_freq + 0.5) + 1.0).ln(), which is
\* ln((2 total_docs + 2) / (2 doc_freq + 1)), in millionths.
idf(idx, term) ==
    LET doc_freq == doc_frequency(idx, term)
        total_docs == total_documents(idx)
    IN IF doc_freq > 0
       THEN LnTable[2 * total_docs + 2] - LnTable[2 * doc_freq + 1]
       ELSE 0

\* One term's idf * normalized_tf in millionths, with k1 = 3/2 and b = 3/4:
\*   normalized_tf = tf (k1 + 1) / (tf + k1 (1 - b + b L / avg))
\*                 = 20 tf p / (8 tf p + 3 p + 9 L q)   for avg = p / q.
\* With avg = 0 and L > 0 the code computes L / 0.0 = inf and a
\* normalized_tf of 0.0, which is what the quotient gives for p = 0.
term_score(idx, stats, term, avg) ==
    LET tf == IF term \in DOMAIN stats.term_frequencies
              THEN stats.term_frequencies[term] ELSE 0
    IN IF tf = 0 THEN 0
       ELSE (idf(idx, term) * (20 * tf * avg.num))
              \div (8 * tf * avg.num + 3 * avg.num + 9 * stats.length * avg.den)

\* BM25::score: one contribution per element of query_terms.
RECURSIVE score(_, _, _, _)
score(query_terms, stats, idx, avg) ==
    IF query_terms = <<>> THEN 0
    ELSE term_score(idx, stats, Head(query_terms), avg)
            + score(Tail(query_terms), stats, idx, avg)

\* An insertion for a sort by score ascending.
RECURSIVE insert_sorted_ascending(_, _)
insert_sorted_ascending(sorted, x) ==
    IF sorted = <<>> THEN <<x>>
    ELSE IF Head(sorted).score <= x.score
         THEN <<Head(sorted)>> \o insert_sorted_ascending(Tail(sorted), x)
         ELSE <<x>> \o sorted

\* Vec::sort_by with b.score.partial_cmp(a.score): a stable sort, score
\* descending.  insert_sorted puts x after every element scoring at least
\* as much.
RECURSIVE insert_sorted(_, _)
insert_sorted(sorted, x) ==
    IF sorted = <<>> THEN <<x>>
    ELSE IF Head(sorted).score >= x.score
         THEN <<Head(sorted)>> \o insert_sorted(Tail(sorted), x)
         ELSE <<x>> \o sorted

RECURSIVE sort_by_score(_)
sort_by_score(docs) ==
    IF docs = <<>> THEN <<>>
    ELSE insert_sorted(sort_by_score(SubSeq(docs, 1, Len(docs) - 1)), docs[Len(docs)])

\* rank_documents: candidates without DocStats are dropped.
rank_documents(query_terms, candidate_docs, doc_stats_map, idx, avg) ==
    LET with_stats == SelectSeq(candidate_docs, LAMBDA id : id \in DOMAIN doc_stats_map)
        scored_docs == [i \in DOMAIN with_stats |->
                           [doc_id |-> with_stats[i],
                            score |-> score(query_terms, doc_stats_map[with_stats[i]],
                                            idx, avg)]]
    IN sort_by_score(scored_docs)

----------------------------------------------------------------------------
(* storage.rs: the sled trees as maps.                                      *)

EmptyDb == [documents |-> [i \in {} |-> None],
            doc_stats |-> [i \in {} |-> None],
            index |-> None]

Put(tree, key, value) ==
    [k \in DOMAIN tree \cup {key} |-> IF k = key THEN value ELSE tree[k]]

Remove(tree, key) == [k \in DOMAIN tree \ {key} |-> tree[k]]

\* A save that keeps the payload already stored under the id.
save_document_keeps_existing(d, doc) ==
    IF doc.id \in DOMAIN d.documents THEN d
    ELSE [d EXCEPT !.documents = Put(@, doc.id, doc)]

\* Storage::save_document
save_document(d, doc) == [d EXCEPT !.documents = Put(@, doc.id, doc)]

\* Storage::get_document
get_document(d, id) ==
    IF id \in DOMAIN d.documents THEN Some(d.documents[id]) ELSE None

\* Storage::delete_document
delete_document(d, id) == [d EXCEPT !.documents = Remove(@, id)]

\* Storage::count_documents
count_documents(d) == Cardinality(DOMAIN d.documents)

\* Storage::save_doc_stats
save_doc_stats(d, stats) == [d EXCEPT !.doc_stats = Put(@, stats.id, stats)]

\* Storage::delete_doc_stats
delete_doc_stats(d, id) == [d EXCEPT !.doc_stats = Remove(@, id)]

\* Storage::save_index
save_index(d, idx) == [d EXCEPT !.index = Some(idx)]

\* A clear that leaves the stored documents.
storage_clear_keeps_documents(d) == [EmptyDb EXCEPT !.documents = d.documents]

\* Storage::clear
storage_clear(d) == EmptyDb

----------------------------------------------------------------------------
(* engine.rs: each call as a function of the engine state                   *)
(* e = [index, doc_stats, avg_doc_length, db].                              *)

Engine == [index |-> index, doc_stats |-> doc_stats,
           avg_doc_length |-> avg_doc_length, db |-> db]

\* SearchEngine::in_memory
NewEngine == [index |-> NewIndex,
              doc_stats |-> [i \in {} |-> None],
              avg_doc_length |-> Zero,
              db |-> EmptyDb]

\* An average that is 0.0 whatever the registry holds.
mean_length_zero(stats_map) == Zero

\* The average recomputed in upsert_document and delete_document.
mean_length(stats_map) ==
    IF DOMAIN stats_map = {} THEN Zero
    ELSE Fraction(SumOver([i \in DOMAIN stats_map |-> stats_map[i].length],
                          DOMAIN stats_map),
                  Cardinality(DOMAIN stats_map))

\* upsert_document, the block under the index write lock: update_document
\* and save_index.  stored says whether the blob reached the index tree
\* (save_index can fail before its insert, or in the flush after it).
upsert_index(e, doc, stored) ==
    LET idx == update_document(e.index, doc.id, Analyzed(searchable_text(doc)))
    IN [e EXCEPT !.index = idx,
                 !.db = IF stored THEN save_index(@, idx) ELSE @]

\* An upsert that adds the new length to the one the registry holds for
\* the id instead of replacing the entry.
upsert_stats_adds_length(e, doc) ==
    LET st == DocStatsOf(doc)
        merged == IF doc.id \in DOMAIN e.doc_stats
                  THEN [st EXCEPT !.length = @ + e.doc_stats[doc.id].length]
                  ELSE st
        stats_map == Put(e.doc_stats, doc.id, merged)
    IN [e EXCEPT !.doc_stats = stats_map,
                 !.avg_doc_length = mean_length(stats_map)]

\* upsert_document, the block under the doc_stats write lock.
upsert_stats(e, doc) ==
    LET stats_map == Put(e.doc_stats, doc.id, DocStatsOf(doc))
    IN [e EXCEPT !.doc_stats = stats_map,
                 !.avg_doc_length = mean_length(stats_map)]

\* upsert_document: self.storage.save_document(&doc)
upsert_save_document(e, doc) == [e EXCEPT !.db = save_document(@, doc)]

\* upsert_document: self.storage.save_doc_stats(&doc_stats)
upsert_save_doc_stats(e, doc) == [e EXCEPT !.db = save_doc_stats(@, DocStatsOf(doc))]

\* The storage steps of upsert_document and delete_document that can return
\* an error; "none" is the call in which every step succeeds.
UpsertFailures == {"save_index", "save_index_flush", "save_document", "save_doc_stats"}
DeleteFailures == {"save_index", "save_index_flush", "delete_document", "delete_doc_stats"}

\* SearchEngine::upsert_document with the storage step `fail` returning an
\* error (the ? operator returns at once): the engine state it leaves and
\* what it returns.
upsert_document(e, doc, fail) ==
    IF fail = "save_index"
    THEN [engine |-> upsert_index(e, doc, FALSE), ret |-> "Err"]
    ELSE IF fail = "save_index_flush"
    THEN [engine |-> upsert_index(e, doc, TRUE), ret |-> "Err"]
    ELSE LET e2 == upsert_stats(upsert_index(e, doc, TRUE), doc) IN
         IF fail = "save_document"
         THEN [engine |-> e2, ret |-> "Err"]
         ELSE LET e3 == upsert_save_document(e2, doc) IN
              IF fail = "save_doc_stats"
              THEN [engine |-> e3, ret |-> "Err"]
              ELSE [engine |-> upsert_save_doc_stats(e3, doc), ret |-> "Ok"]

\* SearchEngine::batch_insert with every storage step succeeding: the loop
\* of upsert_document calls, then self.storage.flush().  flushes lists the
\* flushes issued to the database in order, by the call that issues them:
\* save_index ends with tree.flush() in every upsert_document, and
\* Storage::flush is db.flush().
RECURSIVE batch_insert_loop(_, _)
batch_insert_loop(e, docs) ==
    IF docs = <<>> THEN [engine |-> e, flushes |-> <<>>]
    ELSE LET r == upsert_document(e, Head(docs), "none")
             rest == batch_insert_loop(r.engine, Tail(docs))
         IN [engine |-> rest.engine,
             flushes |-> <<"save_index">> \o rest.flushes]

batch_insert(e, docs) ==
    LET r == batch_insert_loop(e, docs)
    IN [engine |-> r.engine, ret |-> "Ok",
        flushes |-> r.flushes \o <<"flush">>]

\* delete_document, the block under the index write lock.
delete_index(e, doc_id, stored) ==
    LET idx == remove_document(e.index, doc_id)
    IN [e EXCEPT !.index = idx,
                 !.db = IF stored THEN save_index(@, idx) ELSE @]

\* A delete that leaves the registry and the average as they were.
delete_stats_keeps_entry(e, doc_id) == e

\* delete_document, the block under the doc_stats write lock.
delete_stats(e, doc_id) ==
    LET stats_map == Remove(e.doc_stats, doc_id)
    IN [e EXCEPT !.doc_stats = stats_map,
                 !.avg_doc_length = mean_length(stats_map)]

\* A delete that leaves the stored payload.
delete_keeps_stored_document(e, doc_id) == e

\* delete_document: self.storage.delete_document(doc_id)
delete_stored_document(e, doc_id) == [e EXCEPT !.db = delete_document(@, doc_id)]

\* delete_document: self.storage.delete_doc_stats(doc_id)
delete_stored_doc_stats(e, doc_id) == [e EXCEPT !.db = delete_doc_stats(@, doc_id)]

\* SearchEngine::delete_document with the storage step `fail` returning an error.
delete_document_call(e, doc_id, fail) ==
    IF fail = "save_index"
    THEN [engine |-> delete_index(e, doc_id, FALSE), ret |-> "Err"]
    ELSE IF fail = "save_index_flush"
    THEN [engine |-> delete_index(e, doc_id, TRUE), ret |-> "Err"]
    ELSE LET e2 == delete_stats(delete_index(e, doc_id, TRUE), doc_id) IN
         IF fail = "delete_document"
         THEN [engine |-> e2, ret |-> "Err"]
         ELSE LET e3 == delete_stored_document(e2, doc_id) IN
              IF fail = "delete_doc_stats"
              THEN [engine |-> e3, ret |-> "Err"]
              ELSE [engine |-> delete_stored_doc_stats(e3, doc_id), ret |-> "Ok"]

\* SearchEngine::get_document
get(e, doc_id) == get_document(e.db, doc_id)

\* SearchEngine::document_count
document_count(e) == count_documents(e.db)

\* SearchEngine::stats
stats(e) == index_stats(e.index)

\* SearchEngine::clear: a new index, an empty registry and empty storage
\* trees.  The code does not assign avg_doc_length.
clear(e) ==
    [e EXCEPT !.index = NewIndex,
              !.doc_stats = [i \in {} |-> None],
              !.db = storage_clear(@)]

\* Storage::load_index
load_index(d) == d.index

\* Storage::get_all_doc_stats: the rows of the doc_stats tree.
get_all_doc_stats(d) == {d.doc_stats[k] : k \in DOMAIN d.doc_stats}

\* SearchEngine::new on a path whose storage holds d: the index from the
\* blob (a new one when there is none), the registry from the DocStats
\* rows keyed by their id field, the average recomputed.
new(d) ==
    LET stats_vec == get_all_doc_stats(d)
        stats_map == [i \in {s.id : s \in stats_vec} |->
                         CHOOSE s \in stats_vec : s.id = i]
    IN [index |-> IF IsSome(load_index(d)) THEN Unwrap(load_index(d)) ELSE NewIndex,
        doc_stats |-> stats_map,
        avg_doc_length |-> mean_length(stats_map),
        db |-> d]

\* SearchOptions: mode, use_ranking, limit (an Option) and offset.
SearchOptions ==
    [mode : {"And", "Or"},
     use_ranking : BOOLEAN,
     limit : {None} \cup {Some(n) : n \in 0..MaxLimit},
     offset : 0..MaxOffset]

\* search: the candidate set read under the first index read lock.
search_candidates(idx, query_tokens, mode) ==
    IF mode = "And" THEN search_and(idx, query_tokens) ELSE search_or(idx, query_tokens)

\* search: sorted_ids and scores, from the ranker or from the candidates.
search_sorted(e, query_tokens, candidate_ids, use_ranking) ==
    IF use_ranking
    THEN LET scored_docs == rank_documents(query_tokens, candidate_ids, e.doc_stats,
                                           e.index, e.avg_doc_length)
         IN [ids |-> [i \in DOMAIN scored_docs |-> scored_docs[i].doc_id],
             scores |-> Some([i \in DOMAIN scored_docs |-> scored_docs[i].score])]
    ELSE [ids |-> candidate_ids, scores |-> None]

\* The end of the page taken one past offset + limit.
page_end_one_more(options, len) ==
    IF IsSome(options.limit)
    THEN Min(options.offset + Unwrap(options.limit) + 1, len)
    ELSE len

\* search: the end of the page.
page_end(options, len) ==
    IF IsSome(options.limit)
    THEN Min(options.offset + Unwrap(options.limit), len)
    ELSE len

\* search: the loop that fetches the page's documents, skipping the missing.
fetch_documents(d, page_ids) ==
    LET present == SelectSeq(page_ids, LAMBDA id : IsSome(get_document(d, id)))
    IN [i \in DOMAIN present |-> Unwrap(get_document(d, present[i]))]

\* SearchEngine::search, with candidate_ids the candidate set in the order
\* its HashSet listed it.  sorted_ids is the local of that name.  A slice
\* sorted_ids[start..end] with start > end panics.
search(e, query, options, candidate_ids) ==
    LET query_tokens == Analyzed(query) IN
    IF query_tokens = <<>>
    THEN [ret |-> "Ok", documents |-> <<>>, total |-> 0, scores |-> None,
          sorted_ids |-> <<>>]
    ELSE LET total == Len(candidate_ids)
             sorted == search_sorted(e, query_tokens, candidate_ids, options.use_ranking)
             start == options.offset
             end == page_end(options, Len(sorted.ids))
         IN IF start > end
            THEN [ret |-> "panic", documents |-> <<>>, total |-> total,
                  scores |-> None, sorted_ids |-> sorted.ids]
            ELSE [ret |-> "Ok",
                  documents |-> fetch_documents(e.db, SubSeq(sorted.ids, start + 1, end)),
                  total |-> total,
                  scores |-> IF IsSome(sorted.scores)
                             THEN Some(SubSeq(Unwrap(sorted.scores), start + 1, end))
                             ELSE None,
                  sorted_ids |-> sorted.ids]

----------------------------------------------------------------------------
(* The engine used by one caller at a time, every storage step succeeding.  *)
(* A call leaves what it returned in result; the caller takes it (Return)   *)
(* before its next call.  For a write, result also keeps the call's         *)
(* argument and prior, the document stored under that id before the call.   *)

Threads == {"t1", "t2"}

Idle == [pc |-> "idle"]

NoResult == [op |-> "none"]

Ready == phase = "seq" /\ result = NoResult

Init ==
    /\ index = NewEngine.index
    /\ doc_stats = NewEngine.doc_stats
    /\ avg_doc_length = NewEngine.avg_doc_length
    /\ db = NewEngine.db
    /\ result = NoResult
    /\ failures = 0
    /\ phase = "seq"
    /\ thr = [t \in Threads |-> Idle]
    /\ base = NewEngine

SetEngine(e) ==
    /\ index' = e.index
    /\ doc_stats' = e.doc_stats
    /\ avg_doc_length' = e.avg_doc_length
    /\ db' = e.db

Upsert(doc) ==
    /\ Ready
    /\ LET r == upsert_document(Engine, doc, "none") IN
         /\ SetEngine(r.engine)
         /\ result' = [op |-> "upsert", doc |-> doc, ret |-> r.ret,
                        prior |-> get(Engine, doc.id),
                        count_before |-> document_count(Engine)]
    /\ UNCHANGED <<failures, phase, thr, base>>

Delete(doc_id) ==
    /\ Ready
    /\ LET r == delete_document_call(Engine, doc_id, "none") IN
         /\ SetEngine(r.engine)
         /\ result' = [op |-> "delete", id |-> doc_id, ret |-> r.ret,
                        prior |-> get(Engine, doc_id)]
    /\ UNCHANGED <<failures, phase, thr, base>>

Search(query, options) ==
    /\ Ready
    /\ \E candidate_ids \in Orders(search_candidates(index, Analyzed(query), options.mode)) :
         result' = [op |-> "search", query |-> query, options |-> options,
                    out |-> search(Engine, query, options, candidate_ids)]
    /\ UNCHANGED <<index, doc_stats, avg_doc_length, db, failures, phase, thr, base>>

Return ==
    /\ phase = "seq"
    /\ result # NoResult
    /\ result' = NoResult
    /\ UNCHANGED <<index, doc_stats, avg_doc_length, db, failures, phase, thr, base>>

\* The caller that has just upserted a document upserts it again.
UpsertAgain ==
    /\ phase = "seq"
    /\ result.op = "upsert"
    /\ result.ret = "Ok"
    /\ LET r == upsert_document(Engine, result.doc, "none") IN
         /\ SetEngine(r.engine)
         /\ result' = [op |-> "upsert_again", doc |-> result.doc, ret |-> r.ret]
    /\ UNCHANGED <<failures, phase, thr, base>>

\* The caller that has just upserted a document deletes it.
DeleteUpserted ==
    /\ phase = "seq"
    /\ result.op = "upsert"
    /\ result.ret = "Ok"
    /\ LET r == delete_document_call(Engine, result.doc.id, "none") IN
         /\ SetEngine(r.engine)
         /\ result' = [op |-> "delete_upserted", id |-> result.doc.id, ret |-> r.ret,
                        was_live |-> IsSome(result.prior),
                        count_before |-> result.count_before]
    /\ UNCHANGED <<failures, phase, thr, base>>

Clear ==
    /\ Ready
    /\ SetEngine(clear(Engine))
    /\ result' = [op |-> "clear", ret |-> "Ok"]
    /\ UNCHANGED <<failures, phase, thr, base>>

\* The engine is dropped and SearchEngine::new opens its storage again.
Reopen ==
    /\ Ready
    /\ SetEngine(new(db))
    /\ result' = [op |-> "reopen", ret |-> "Ok"]
    /\ UNCHANGED <<failures, phase, thr, base>>

Next ==
    \/ \E doc \in Documents : Upsert(doc)
    \/ \E doc_id \in DocIds : Delete(doc_id)
    \/ \E query \in Queries, options \in SearchOptions : Search(query, options)
    \/ Return
    \/ UpsertAgain
    \/ DeleteUpserted
    \/ Clear
    \/ Reopen

Spec == Init /\ [][Next]_vars

----------------------------------------------------------------------------
(* The same, with storage steps that can return an error.                   *)

UpsertFails(doc, fail) ==
    /\ Ready
    /\ failures < MaxFailures
    /\ LET r == upsert_document(Engine, doc, fail) IN
         /\ SetEngine(r.engine)
         /\ result' = [op |-> "upsert", doc |-> doc, ret |-> r.ret,
                        prior |-> get(Engine, doc.id),
                        count_before |-> document_count(Engine)]
    /\ failures' = failures + 1
    /\ UNCHANGED <<phase, thr, base>>

DeleteFails(doc_id, fail) ==
    /\ Ready
    /\ failures < MaxFailures
    /\ LET r == delete_document_call(Engine, doc_id, fail) IN
         /\ SetEngine(r.engine)
         /\ result' = [op |-> "delete", id |-> doc_id, ret |-> r.ret,
                        prior |-> get(Engine, doc_id)]
    /\ failures' = failures + 1
    /\ UNCHANGED <<phase, thr, base>>

\* The storage steps of upsert_document and delete_document before which
\* the process can stop with the earlier storage steps already done.
UpsertCrashPoints == {"save_document", "save_doc_stats"}
DeleteCrashPoints == {"delete_document", "delete_doc_stats"}

\* The process stops inside upsert_document just before the storage step
\* `point`; the in-memory state is lost, storage keeps what the earlier
\* steps wrote, and SearchEngine::new opens it.
CrashInUpsert(doc, point) ==
    /\ Ready
    /\ failures < MaxFailures
    /\ SetEngine(new(upsert_document(Engine, doc, point).engine.db))
    /\ result' = [op |-> "recover", ret |-> "Ok"]
    /\ failures' = failures + 1
    /\ UNCHANGED <<phase, thr, base>>

\* The same inside delete_document.
CrashInDelete(doc_id, point) ==
    /\ Ready
    /\ failures < MaxFailures
    /\ SetEngine(new(delete_document_call(Engine, doc_id, point).engine.db))
    /\ result' = [op |-> "recover", ret |-> "Ok"]
    /\ failures' = failures + 1
    /\ UNCHANGED <<phase, thr, base>>

\* The searches tried in the behaviours with failing storage steps: the
\* whole result list, in each mode, ranked and not.
WholeListOptions ==
    {o \in SearchOptions : o.limit = None /\ o.offset = 0}

NextFail ==
    \/ \E doc \in Documents : Upsert(doc)
    \/ \E doc_id \in DocIds : Delete(doc_id)
    \/ \E query \in Queries, options \in WholeListOptions : Search(query, options)
    \/ Return
    \/ \E doc \in Documents, fail \in UpsertFailures : UpsertFails(doc, fail)
    \/ \E doc_id \in DocIds, fail \in DeleteFailures : DeleteFails(doc_id, fail)
    \/ \E doc \in Documents, point \in UpsertCrashPoints : CrashInUpsert(doc, point)
    \/ \E doc_id \in DocIds, point \in DeleteCrashPoints : CrashInDelete(doc_id, point)

SpecFail == Init /\ [][NextFail]_vars

\* The behaviours with batches: upserts, deletes and batch inserts of the
\* batch documents, and whole-list searches.
MaxBatch == 2

Batches == UNION {[1..n -> BatchDocuments] : n \in 0..MaxBatch}

BatchInsert(docs) ==
    /\ Ready
    /\ LET r == batch_insert(Engine, docs) IN
         /\ SetEngine(r.engine)
         /\ result' = [op |-> "batch_insert", docs |-> docs, ret |-> r.ret,
                        flushes |-> r.flushes]
    /\ UNCHANGED <<failures, phase, thr, base>>

NextBatch ==
    \/ \E doc \in BatchDocuments : Upsert(doc)
    \/ \E doc_id \in BatchIds : Delete(doc_id)
    \/ \E docs \in Batches : BatchInsert(docs)
    \/ \E query \in Queries \cup RepeatedQueries, options \in WholeListOptions :
          Search(query, options)
    \/ Return

SpecBatch == Init /\ [][NextBatch]_vars

\* The behaviours of the inverted index used on its own: add_document,
\* remove_document and update_document in any order, with the token lists
\* of the documents.  add_document is the one call that lets doc_count
\* grow without limit; MaxDocCount caps it.
MaxDocCount == 4

TokenLists == {Analyzed(searchable_text(d)) : d \in Documents}

IndexAdd(doc_id, tokens) ==
    /\ index.doc_count < MaxDocCount
    /\ index' = add_document(index, doc_id, tokens)
    /\ UNCHANGED <<doc_stats, avg_doc_length, db, result, failures, phase, thr, base>>

IndexRemove(doc_id) ==
    /\ index' = remove_document(index, doc_id)
    /\ UNCHANGED <<doc_stats, avg_doc_length, db, result, failures, phase, thr, base>>

IndexUpdate(doc_id, tokens) ==
    /\ index' = update_document(index, doc_id, tokens)
    /\ UNCHANGED <<doc_stats, avg_doc_length, db, result, failures, phase, thr, base>>

NextIndex ==
    \/ \E doc_id \in DocIds, tokens \in TokenLists : IndexAdd(doc_id, tokens)
    \/ \E doc_id \in DocIds : IndexRemove(doc_id)
    \/ \E doc_id \in DocIds, tokens \in TokenLists : IndexUpdate(doc_id, tokens)

SpecIndex == Init /\ [][NextIndex]_vars

\* The tokenizer on its own: the text is any string of at most MaxText
\* characters over two letters and two separators, and the one step
\* applies Tokenizer::tokenize to it.
MaxText == 6

TextChars == {"a", "T", ",", " "}

Texts == UNION {[1..n -> TextChars] : n \in 0..MaxText}

InitTokenize ==
    /\ index = NewEngine.index
    /\ doc_stats = NewEngine.doc_stats
    /\ avg_doc_length = NewEngine.avg_doc_length
    /\ db = NewEngine.db
    /\ result \in {[op |-> "text", text |-> t] : t \in Texts}
    /\ failures = 0
    /\ phase = "seq"
    /\ thr = [t \in Threads |-> Idle]
    /\ base = NewEngine

Tokenize ==
    /\ result.op = "text"
    /\ result' = [op |-> "tokenize", text |-> result.text,
                   tokens |-> tokenize(result.text)]
    /\ UNCHANGED <<index, doc_stats, avg_doc_length, db, failures, phase, thr, base>>

NextTokenize == Tokenize

SpecTokenize == InitTokenize /\ [][NextTokenize]_vars

----------------------------------------------------------------------------
(* engine.rs: the lock scopes of upsert_document, delete_document, search   *)
(* and clear.  Here each acquisition and each release of an RwLock is a     *)
(* step of its own and the data the blocks read and write is left as it is; *)
(* the blocks' effects are the steps of SpecConc.                           *)

LockThreads == {"t1", "t2", "t3"}

LockCalls == {"upsert", "delete", "search_ranked", "search_unranked", "clear"}

Acquire(l, m) == [act |-> "acquire", lock |-> l, mode |-> m]
Release(l) == [act |-> "release", lock |-> l, mode |-> "none"]

\* The stats block of upsert_document and delete_document: the doc_stats
\* write guard, and inside it the avg_doc_length write guard, a temporary
\* dropped at the end of its statement.
stats_block_locks ==
    <<Acquire("doc_stats", "write"), Acquire("avg_doc_length", "write"),
      Release("avg_doc_length"), Release("doc_stats")>>

\* A call whose stats block takes avg_doc_length before doc_stats.
lock_program_avg_first(call) ==
    CASE call \in {"upsert", "delete"} ->
            <<Acquire("index", "write"), Release("index"),
              Acquire("avg_doc_length", "write"), Acquire("doc_stats", "write"),
              Release("doc_stats"), Release("avg_doc_length")>>
      [] call = "search_unranked" ->
            <<Acquire("index", "read"), Release("index")>>
      [] call = "search_ranked" ->
            <<Acquire("index", "read"), Release("index"),
              Acquire("index", "read"), Acquire("doc_stats", "read"),
              Acquire("avg_doc_length", "read"), Release("avg_doc_length"),
              Release("doc_stats"), Release("index")>>
      [] call = "clear" ->
            <<Acquire("index", "write"), Release("index"),
              Acquire("doc_stats", "write"), Release("doc_stats")>>

\* The acquisitions and releases of each call, in program order.  search
\* takes the index read guard for the candidates, drops it, and for a
\* ranked search takes index, doc_stats and avg_doc_length read guards, the
\* last one a temporary; the guards of a block are dropped in reverse order
\* of their declaration.
lock_program(call) ==
    CASE call \in {"upsert", "delete"} ->
            <<Acquire("index", "write"), Release("index")>> \o stats_block_locks
      [] call = "search_unranked" ->
            <<Acquire("index", "read"), Release("index")>>
      [] call = "search_ranked" ->
            <<Acquire("index", "read"), Release("index"),
              Acquire("index", "read"), Acquire("doc_stats", "read"),
              Acquire("avg_doc_length", "read"), Release("avg_doc_length"),
              Release("doc_stats"), Release("index")>>
      [] call = "clear" ->
            <<Acquire("index", "write"), Release("index"),
              Acquire("doc_stats", "write"), Release("doc_stats")>>

Completed(t) == thr[t].pos > Len(lock_program(thr[t].call))

NextInstruction(t) == lock_program(thr[t].call)[thr[t].pos]

\* The position of the acquisition through which thread t holds lock l, 0
\* when it does not hold it.
HeldAt(t, l) ==
    LET prog == lock_program(thr[t].call)
        done == 1..(thr[t].pos - 1)
        open == {i \in done :
                    /\ prog[i].act = "acquire"
                    /\ prog[i].lock = l
                    /\ \A j \in done : j > i => ~(prog[j].act = "release" /\ prog[j].lock = l)}
    IN IF open = {} THEN 0 ELSE CHOOSE i \in open : TRUE

HeldMode(t, l) ==
    IF HeldAt(t, l) = 0 THEN "none" ELSE lock_program(thr[t].call)[HeldAt(t, l)].mode

\* RwLock: a write guard excludes every other guard, a read guard excludes
\* write guards.
CanAcquire(t, ins) ==
    \A u \in LockThreads \ {t} :
        IF ins.mode = "write" THEN HeldMode(u, ins.lock) = "none"
        ELSE HeldMode(u, ins.lock) # "write"

\* The same under a policy that makes a reader queue behind a writer that
\* is waiting for the lock (the policy of std::sync::RwLock is that of the
\* platform).
CanAcquireQueued(t, ins) ==
    /\ CanAcquire(t, ins)
    /\ ins.mode = "read" =>
          \A u \in LockThreads \ {t} :
              ~Completed(u) => NextInstruction(u) # Acquire(ins.lock, "write")

InitLocks ==
    /\ index = NewEngine.index
    /\ doc_stats = NewEngine.doc_stats
    /\ avg_doc_length = NewEngine.avg_doc_length
    /\ db = NewEngine.db
    /\ result = NoResult
    /\ failures = 0
    /\ phase = "locks"
    /\ thr \in [LockThreads -> {[call |-> c, pos |-> 1, ret |-> "none"] : c \in LockCalls}]
    /\ base = NewEngine

\* One acquisition or release of thread t; the call returns Ok after its
\* last one.
LockStep(t) ==
    /\ phase = "locks"
    /\ ~Completed(t)
    /\ NextInstruction(t).act = "acquire" => CanAcquire(t, NextInstruction(t))
    /\ thr' = [thr EXCEPT ![t] =
                  [@ EXCEPT !.pos = @ + 1,
                            !.ret = IF thr[t].pos = Len(lock_program(thr[t].call))
                                    THEN "Ok" ELSE "none"]]
    /\ UNCHANGED <<index, doc_stats, avg_doc_length, db, result, failures, phase, base>>

\* save_index returns an error inside the index block of upsert_document
\* or delete_document: the ? operator drops the index guard and the call
\* returns.
LockFail(t) ==
    /\ phase = "locks"
    /\ thr[t].call \in {"upsert", "delete"}
    /\ thr[t].pos = 2
    /\ thr' = [thr EXCEPT ![t] =
                  [@ EXCEPT !.pos = Len(lock_program(thr[t].call)) + 1,
                            !.ret = "Err"]]
    /\ UNCHANGED <<index, doc_stats, avg_doc_length, db, result, failures, phase, base>>

NextLocks ==
    \E t \in LockThreads :
        \/ LockStep(t)
        \/ LockFail(t)

\* A thread that can take its next step is eventually scheduled.
SpecLocks ==
    /\ InitLocks
    /\ [][NextLocks]_vars
    /\ \A t \in LockThreads : WF_vars(LockStep(t))

----------------------------------------------------------------------------
(* The engine shared by threads.  After some calls made one at a time,     *)
(* each thread starts one call and the calls interleave.  A step is what a  *)
(* call does under one lock, or one storage operation outside any lock:     *)
(*   upsert_document: {index.write(): update_document, save_index};         *)
(*                    {doc_stats.write(): insert, avg_doc_length.write()};  *)
(*                    save_document; save_doc_stats                         *)
(*   delete_document: the same shape                                        *)
(*   search:          {index.read(): search_and / search_or};               *)
(*                    {index.read(), doc_stats.read(), avg_doc_length       *)
(*                     .read(): rank_documents}; one get_document per id.   *)

\* The documents and searches of the interleaved calls.
ConcDocuments == {d \in Documents : d.id \in {"1", "2"}}

ConcQueries == {<<"c", "a", "t", "s">>, <<"c", "a", "t", ",", "d", "o", "g">>}

UpsertCall(doc) == [pc |-> "upsert_index", op |-> "upsert", doc |-> doc]

DeleteCall(doc_id) == [pc |-> "delete_index", op |-> "delete", id |-> doc_id]

SearchCall(query, options) ==
    [pc |-> "search_candidates", op |-> "search", query |-> query, options |-> options,
     candidate_ids |-> <<>>, total |-> 0, seen_stats |-> [i \in {} |-> None],
     sorted_ids |-> <<>>, scores |-> None, page_ids |-> <<>>, fetched |-> <<>>,
     documents |-> <<>>, ret |-> "running"]

Calls ==
    {UpsertCall(doc) : doc \in ConcDocuments}
        \cup {DeleteCall(d.id) : d \in ConcDocuments}
        \cup {SearchCall(x[1], x[2]) : x \in ConcQueries \X WholeListOptions}

\* Each thread starts a call.
Begin ==
    /\ Ready
    /\ phase' = "conc"
    /\ thr' \in [Threads -> Calls]
    /\ base' = Engine
    /\ UNCHANGED <<index, doc_stats, avg_doc_length, db, result, failures>>

Step(t, e, rec) ==
    /\ SetEngine(e)
    /\ thr' = [thr EXCEPT ![t] = rec]
    /\ UNCHANGED <<result, failures, phase, base>>

At(t, pc) == phase = "conc" /\ thr[t].pc = pc

UpsertIndexStep(t) ==
    /\ At(t, "upsert_index")
    /\ Step(t, upsert_index(Engine, thr[t].doc, TRUE), [thr[t] EXCEPT !.pc = "upsert_stats"])

UpsertStatsStep(t) ==
    /\ At(t, "upsert_stats")
    /\ Step(t, upsert_stats(Engine, thr[t].doc), [thr[t] EXCEPT !.pc = "save_document"])

UpsertSaveDocumentStep(t) ==
    /\ At(t, "save_document")
    /\ Step(t, upsert_save_document(Engine, thr[t].doc),
            [thr[t] EXCEPT !.pc = "save_doc_stats"])

UpsertSaveDocStatsStep(t) ==
    /\ At(t, "save_doc_stats")
    /\ Step(t, upsert_save_doc_stats(Engine, thr[t].doc), [thr[t] EXCEPT !.pc = "done"])

DeleteIndexStep(t) ==
    /\ At(t, "delete_index")
    /\ Step(t, delete_index(Engine, thr[t].id, TRUE), [thr[t] EXCEPT !.pc = "delete_stats"])

DeleteStatsStep(t) ==
    /\ At(t, "delete_stats")
    /\ Step(t, delete_stats(Engine, thr[t].id), [thr[t] EXCEPT !.pc = "delete_document"])

DeleteDocumentStep(t) ==
    /\ At(t, "delete_document")
    /\ Step(t, delete_stored_document(Engine, thr[t].id),
            [thr[t] EXCEPT !.pc = "delete_doc_stats"])

DeleteDocStatsStep(t) ==
    /\ At(t, "delete_doc_stats")
    /\ Step(t, delete_stored_doc_stats(Engine, thr[t].id), [thr[t] EXCEPT !.pc = "done"])

\* search, from sorted_ids to the page: the slice panics when start > end;
\* an empty page needs no fetch.
Paginate(rec, sorted) ==
    LET start == rec.options.offset
        end == page_end(rec.options, Len(sorted.ids))
    IN IF start > end
       THEN [rec EXCEPT !.pc = "done", !.ret = "panic", !.sorted_ids = sorted.ids]
       ELSE [rec EXCEPT !.pc = IF start = end THEN "done" ELSE "search_fetch",
                        !.ret = IF start = end THEN "Ok" ELSE "running",
                        !.sorted_ids = sorted.ids,
                        !.page_ids = SubSeq(sorted.ids, start + 1, end),
                        !.scores = IF IsSome(sorted.scores)
                                   THEN Some(SubSeq(Unwrap(sorted.scores), start + 1, end))
                                   ELSE None]

\* search: the query analyzed (an empty one returns at once) and the
\* candidates read under the index read lock; without ranking the page
\* follows from them alone.
SearchCandidatesStep(t) ==
    /\ At(t, "search_candidates")
    /\ LET rec == thr[t]
           query_tokens == Analyzed(rec.query)
       IN IF query_tokens = <<>>
          THEN Step(t, Engine, [rec EXCEPT !.pc = "done", !.ret = "Ok"])
          ELSE \E c \in Orders(search_candidates(index, query_tokens, rec.options.mode)) :
                 LET got == [rec EXCEPT !.candidate_ids = c, !.total = Len(c)]
                 IN IF rec.options.use_ranking
                    THEN Step(t, Engine, [got EXCEPT !.pc = "search_rank"])
                    ELSE Step(t, Engine, Paginate(got, [ids |-> c, scores |-> None]))

\* search: the ranking, under the index, doc_stats and avg_doc_length read
\* locks.  seen_stats keeps what doc_stats_map.get returned per candidate.
SearchRankStep(t) ==
    /\ At(t, "search_rank")
    /\ LET rec == thr[t]
           seen == [d \in Range(rec.candidate_ids) |->
                       IF d \in DOMAIN doc_stats THEN Some(doc_stats[d]) ELSE None]
           sorted == search_sorted(Engine, Analyzed(rec.query), rec.candidate_ids, TRUE)
       IN Step(t, Engine, Paginate([rec EXCEPT !.seen_stats = seen], sorted))

\* search: one get_document of the fetch loop.  fetched counts the ids of
\* the page asked for so far.
SearchFetchStep(t) ==
    /\ At(t, "search_fetch")
    /\ LET rec == thr[t]
           id == rec.page_ids[Len(rec.fetched) + 1]
           got == Append(rec.fetched, get_document(db, id))
           last == Len(got) = Len(rec.page_ids)
       IN Step(t, Engine,
               [rec EXCEPT !.fetched = got,
                           !.documents = IF IsSome(get_document(db, id))
                                         THEN Append(@, Unwrap(get_document(db, id)))
                                         ELSE @,
                           !.pc = IF last THEN "done" ELSE "search_fetch",
                           !.ret = IF last THEN "Ok" ELSE "running"])

NextConc ==
    \/ \E doc \in ConcDocuments : Upsert(doc)
    \/ \E doc \in ConcDocuments : Delete(doc.id)
    \/ Return
    \/ Begin
    \/ \E t \in Threads :
         \/ UpsertIndexStep(t)
         \/ UpsertStatsStep(t)
         \/ UpsertSaveDocumentStep(t)
         \/ UpsertSaveDocStatsStep(t)
         \/ DeleteIndexStep(t)
         \/ DeleteStatsStep(t)
         \/ DeleteDocumentStep(t)
         \/ DeleteDocStatsStep(t)
         \/ SearchCandidatesStep(t)
         \/ SearchRankStep(t)
         \/ SearchFetchStep(t)

SpecConc == Init /\ [][NextConc]_vars

----------------------------------------------------------------------------
(* Properties of the engine used by one caller at a time.                   *)

EngineNext == [index |-> index', doc_stats |-> doc_stats',
               avg_doc_length |-> avg_doc_length', db |-> db']

\* The live documents: the ids with a stored payload.
Live == DOMAIN db.documents

\* The distinct analyzed terms of a document.
TermsOf(doc) == Range(Analyzed(searchable_text(doc)))

\* The terms whose posting list holds an id.
PostedTerms(idx, id) == {t \in DOMAIN idx.index : Contains(idx.index[t], id)}

\* A term's posting list without one id.
PostingsWithout(idx, t, id) ==
    IF t \in DOMAIN idx.index
    THEN SelectSeq(idx.index[t], LAMBDA x : x # id)
    ELSE <<>>

\* The analyzed terms of the model's texts, and one that no document has.
Terms == {"cat", "dog", "rust"}

TermLists == UNION {[1..n -> Terms] : n \in 0..MaxTerms}

\* C1: doc_count equals the number of live documents after any sequence of
\* successful upserts and deletes (an upsert of a new id adds exactly 1, an
\* upsert of an existing id adds nothing).
C1_DocCountIsLiveCount == index.doc_count = Cardinality(Live)

\* C2: after a successful upsert(doc), the terms whose posting list holds
\* doc.id are exactly the distinct analyzed terms of the new text, and every
\* posting list is unchanged as far as the other ids go.
C2_UpsertReplacesPostings ==
    [][(result = NoResult /\ result'.op = "upsert" /\ result'.ret = "Ok") =>
         LET doc == result'.doc IN
           /\ PostedTerms(index', doc.id) = TermsOf(doc)
           /\ \A t \in DOMAIN index.index \cup DOMAIN index'.index :
                PostingsWithout(index', t, doc.id) = PostingsWithout(index, t, doc.id)
      ]_vars

\* C2's case: an upsert replaced a stored document whose text had other terms.
C2_Witness ==
    /\ result.op = "upsert"
    /\ IsSome(result.prior)
    /\ TermsOf(Unwrap(result.prior)) \ TermsOf(result.doc) # {}
    /\ TermsOf(result.doc) # {}
    /\ \E other \in Live \ {result.doc.id} : PostedTerms(index, other) # {}

\* C3: search_and(terms) is exactly the set of live documents whose analyzed
\* text contains every term; it is empty for no terms and when a term has no
\* posting list.
C3_SearchAndExact ==
    result.op \in {"none", "upsert", "delete"} =>
    \A q \in TermLists :
        /\ search_and(index, q) =
             IF q = <<>> THEN {}
             ELSE {d \in Live : \A i \in DOMAIN q : q[i] \in TermsOf(db.documents[d])}
        /\ (\E i \in DOMAIN q : q[i] \notin DOMAIN index.index) => search_and(index, q) = {}

\* C3's case: after a delete, a two-term conjunction matches some live
\* document and leaves out another that has only one of the terms.
C3_Witness ==
    /\ result.op = "delete"
    /\ IsSome(result.prior)
    /\ search_and(index, <<"cat", "dog">>) # {}
    /\ search_and(index, <<"cat">>) \ search_and(index, <<"cat", "dog">>) # {}

\* C4: search_or(terms) is exactly the set of live documents whose analyzed
\* text contains at least one of the terms, and empty for no terms.
C4_SearchOrExact ==
    result.op \in {"none", "upsert", "delete"} =>
    \A q \in TermLists :
        search_or(index, q) =
            {d \in Live : \E i \in DOMAIN q : q[i] \in TermsOf(db.documents[d])}

\* C4's case: after the delete of a document that matched, a disjunction
\* matches one document through one term and another through both.
C4_Witness ==
    /\ result.op = "delete"
    /\ IsSome(result.prior)
    /\ "cat" \in TermsOf(Unwrap(result.prior))
    /\ Cardinality(search_or(index, <<"dog", "cat">>)) = 2
    /\ search_and(index, <<"dog", "cat">>) # {}
    /\ search_and(index, <<"dog", "cat">>) # search_or(index, <<"dog", "cat">>)

\* Every search a caller can make on engine state e, with every order the
\* candidate set can be listed in.
AllSearches(e) ==
    [x \in {y \in Queries \X SearchOptions : TRUE} |->
        {search(e, x[1], x[2], c) :
            c \in Orders(search_candidates(e.index, Analyzed(x[1]), x[2].mode))}]

\* C5: delete(id) of an id that is not live succeeds and changes nothing a
\* caller can observe: document_count(), stats() and every search.
C5_DeleteMissingHasNoEffect ==
    [][(result = NoResult /\ result'.op = "delete" /\ ~IsSome(result'.prior)) =>
         /\ result'.ret = "Ok"
         /\ document_count(EngineNext) = document_count(Engine)
         /\ stats(EngineNext) = stats(Engine)
         /\ AllSearches(EngineNext) = AllSearches(Engine)
      ]_vars

\* The page end search is to compute: offset + limit capped at the number
\* of results, or the number of results when there is no limit.
ExpectedEnd(options, n) ==
    IF IsSome(options.limit) /\ options.offset + Unwrap(options.limit) < n
    THEN options.offset + Unwrap(options.limit)
    ELSE n

\* C9: a search with offset >= the number of results returns an empty page
\* and the full match count; it does not fail.
C9_OffsetPastEndGivesEmptyPage ==
    (result.op = "search" /\ result.options.offset >= Len(result.out.sorted_ids)) =>
        /\ result.out.ret = "Ok"
        /\ result.out.documents = <<>>
        /\ result.out.total =
             Cardinality(search_candidates(index, Analyzed(result.query),
                                           result.options.mode))

\* C10: for an offset within the results, total is the size of the candidate
\* set whatever limit and offset are, and documents are the stored documents
\* of sorted_ids at positions offset .. min(offset + limit, n) (to n with no
\* limit), so never more than limit of them.
C10_PageIsSliceOfResults ==
    (result.op = "search" /\ result.options.offset <= Len(result.out.sorted_ids)) =>
        LET o == result.out
            start == result.options.offset
            end == ExpectedEnd(result.options, Len(o.sorted_ids))
        IN /\ o.ret = "Ok"
           /\ o.total = Cardinality(search_candidates(index, Analyzed(result.query),
                                                      result.options.mode))
           /\ Len(o.documents) = end - start
           /\ \A i \in 1..(end - start) :
                o.documents[i] = db.documents[o.sorted_ids[start + i]]
           /\ IsSome(result.options.limit) =>
                Len(o.documents) <= Unwrap(result.options.limit)

\* C10's case: three results, and a page of one document taken from the middle.
C10_Witness ==
    /\ result.op = "search"
    /\ result.options.offset = 1
    /\ result.options.limit = Some(1)
    /\ Len(result.out.sorted_ids) = 3
    /\ result.out.total = 3
    /\ Len(result.out.documents) = 1
    /\ result.out.documents[1].id = result.out.sorted_ids[2]

----------------------------------------------------------------------------
(* Properties of calls whose storage steps can fail.                        *)

\* upsert(doc) fully applied to engine state e: postings, DocStats, average,
\* payload, DocStats row and index blob.
FullyApplied(e, doc) ==
    /\ PostedTerms(e.index, doc.id) = TermsOf(doc)
    /\ doc.id \in DOMAIN e.doc_stats
    /\ e.doc_stats[doc.id] = DocStatsOf(doc)
    /\ e.avg_doc_length = mean_length(e.doc_stats)
    /\ get_document(e.db, doc.id) = Some(doc)
    /\ doc.id \in DOMAIN e.db.doc_stats
    /\ e.db.doc_stats[doc.id] = DocStatsOf(doc)
    /\ e.db.index = Some(e.index)

\* C8: an upsert that returns an error leaves the engine either with the
\* document fully applied, in memory and in storage, or exactly as it was.
C8_FailedUpsertIsAllOrNothing ==
    [][(result = NoResult /\ result'.op = "upsert" /\ result'.ret = "Err") =>
         \/ EngineNext = Engine
         \/ FullyApplied(EngineNext, result'.doc)
      ]_vars

----------------------------------------------------------------------------
(* Properties of interleaved calls.                                         *)

\* Whether a document version (None: no document) matches the query terms.
Matches(version, query_tokens, mode) ==
    /\ IsSome(version)
    /\ IF mode = "And"
       THEN \A i \in DOMAIN query_tokens : query_tokens[i] \in TermsOf(Unwrap(version))
       ELSE \E i \in DOMAIN query_tokens : query_tokens[i] \in TermsOf(Unwrap(version))

\* The versions of document d around the interleaved calls: the one stored
\* when they started, and the one each upsert or delete of d leaves.
VersionsOf(d) ==
    {get(base, d)}
        \cup {Some(thr[u].doc) : u \in {w \in Threads : thr[w].op = "upsert" /\ thr[w].doc.id = d}}
        \cup {None : u \in {w \in Threads : thr[w].op = "delete" /\ thr[w].id = d}}

\* What a finished search read of document d agrees with one version of d:
\* the candidates (index), the DocStats the ranker got, the payload fetched.
ReadsAgree(rec, d, version) ==
    /\ (d \in Range(rec.candidate_ids)) = Matches(version, Analyzed(rec.query), rec.options.mode)
    /\ d \in DOMAIN rec.seen_stats =>
         rec.seen_stats[d] = IF IsSome(version) THEN Some(DocStatsOf(Unwrap(version))) ELSE None
    /\ \A i \in DOMAIN rec.fetched : rec.page_ids[i] = d => rec.fetched[i] = version

\* C6: a search that overlaps an upsert or delete of d sees d entirely as
\* before the write or entirely as after it: candidates, ranking inputs and
\* payload all reflect one version of d.
C6_SearchSeesOneVersion ==
    \A t \in Threads :
        (phase = "conc" /\ thr[t].op = "search" /\ thr[t].pc = "done"
            /\ Analyzed(thr[t].query) # <<>>) =>
                \A d \in DocIds : \E version \in VersionsOf(d) : ReadsAgree(thr[t], d, version)

\* The write calls of a set of threads applied one after the other, in the
\* order given, every step succeeding.
RECURSIVE ApplyInOrder(_, _)
ApplyInOrder(e, order) ==
    IF order = <<>> THEN e
    ELSE LET call == thr[Head(order)]
             e2 == IF call.op = "upsert" THEN upsert_document(e, call.doc, "none").engine
                   ELSE IF call.op = "delete" THEN delete_document_call(e, call.id, "none").engine
                   ELSE e
         IN ApplyInOrder(e2, Tail(order))

\* Posting lists as sets.
PostingSets(idx) == [t \in DOMAIN idx.index |-> Range(idx.index[t])]

\* Two engine states with the same postings, DocStats registry, average,
\* stored documents and stored DocStats rows.
SameContent(e1, e2) ==
    /\ PostingSets(e1.index) = PostingSets(e2.index)
    /\ e1.doc_stats = e2.doc_stats
    /\ e1.avg_doc_length = e2.avg_doc_length
    /\ e1.db.documents = e2.db.documents
    /\ e1.db.doc_stats = e2.db.doc_stats

\* C7: when the interleaved upserts and deletes have all returned, the state
\* is the one some sequential order of them produces.
C7_WritesAreSerializable ==
    (phase = "conc" /\ \A t \in Threads : thr[t].pc = "done") =>
        \E order \in Orders(Threads) : SameContent(Engine, ApplyInOrder(base, order))

----------------------------------------------------------------------------
(* Further properties of calls whose storage steps can fail.                *)

\* C11: whenever search returns scores, there are as many scores as
\* documents and scores[i] is the score of documents[i], also in the states
\* a failed write leaves.
C11_ScoresMatchDocuments ==
    (result.op = "search" /\ result.out.ret = "Ok" /\ IsSome(result.out.scores)) =>
        LET scores == Unwrap(result.out.scores)
            documents == result.out.documents
        IN /\ Len(scores) = Len(documents)
           /\ \A i \in 1..Len(documents) :
                /\ documents[i].id \in DOMAIN doc_stats
                /\ scores[i] = score(Analyzed(result.query), doc_stats[documents[i].id],
                                     index, avg_doc_length)

----------------------------------------------------------------------------
(* Further properties of the engine used by one caller at a time.           *)

\* C12: after every completed upsert, delete and clear, avg_doc_length is
\* the mean of length over the DocStats registry, and 0 when it is empty.
C12_AverageIsMeanLength == avg_doc_length = mean_length(doc_stats)

\* The ids that occur in some posting list of an index.
PostedIds(idx) == UNION {Range(idx.index[t]) : t \in DOMAIN idx.index}

\* C13: in every state between successful calls the stored documents, the
\* stored DocStats rows and the DocStats registry have the same ids, every
\* id of a posting list is one of them, and a deleted id is in none.
C13_SameIdsEverywhere ==
    /\ DOMAIN db.doc_stats = Live
    /\ DOMAIN doc_stats = Live
    /\ PostedIds(index) \subseteq Live
    /\ (result.op \in {"delete", "delete_upserted"} /\ result.ret = "Ok") =>
          result.id \notin Live \cup DOMAIN doc_stats \cup DOMAIN db.doc_stats
                                \cup PostedIds(index)
    /\ result.op = "clear" =>
          Live \cup DOMAIN doc_stats \cup DOMAIN db.doc_stats \cup PostedIds(index) = {}

\* C13's case: a document with postings was deleted and others are live,
\* one of them with postings.
C13_Witness ==
    /\ result.op = "delete"
    /\ IsSome(result.prior)
    /\ TermsOf(Unwrap(result.prior)) # {}
    /\ Cardinality(Live) = 2
    /\ PostedIds(index) # {}

\* C14: for every live document, DocStats.length is the number of tokens
\* analyze emits for its searchable text, the keys of term_frequencies are
\* the distinct analyzed terms, every frequency is positive and the
\* frequencies sum to length.
C14_DocStatsMatchAnalysis ==
    \A d \in Live :
        /\ d \in DOMAIN doc_stats
        /\ LET tokens == Analyzed(searchable_text(db.documents[d]))
               st == doc_stats[d]
           IN /\ st.length = Len(tokens)
              /\ DOMAIN st.term_frequencies = Range(tokens)
              /\ \A t \in DOMAIN st.term_frequencies : st.term_frequencies[t] > 0
              /\ SumOver(st.term_frequencies, DOMAIN st.term_frequencies) = st.length

\* C14's case: a live document whose text repeats a term, next to one with
\* no term at all.
C14_Witness ==
    /\ result.op = "upsert"
    /\ \E d \in Live :
          /\ doc_stats[d].length = 3
          /\ Cardinality(DOMAIN doc_stats[d].term_frequencies) = 2
    /\ \E d \in Live : doc_stats[d].length = 0

\* The ids a search can return for a query on engine state e, over every
\* options value and every listing order of the candidate set.
ReturnedIds(e, query) ==
    LET all == AllSearches(e) IN
    UNION {UNION {{o.documents[i].id : i \in DOMAIN o.documents} \cup Range(o.sorted_ids) :
                     o \in all[<<query, options>>]} : options \in SearchOptions}

\* The queries all of whose analyzed terms are among the given terms.
QueriesWithin(terms) ==
    {q \in Queries : Analyzed(q) # <<>> /\ Range(Analyzed(q)) \subseteq terms}

\* C15: an upsert of a live id with another title or content replaces the
\* document: get(id) returns the new payload, document_count() is unchanged
\* and the id no longer matches a search for terms only the old text had.
C15_UpsertReplacesDocument ==
    [][(/\ result = NoResult
        /\ result'.op = "upsert"
        /\ result'.ret = "Ok"
        /\ IsSome(result'.prior)
        /\ Unwrap(result'.prior) # result'.doc) =>
         LET doc == result'.doc
             old == Unwrap(result'.prior)
         IN /\ get(EngineNext, doc.id) = Some(doc)
            /\ document_count(EngineNext) = document_count(Engine)
            /\ \A q \in QueriesWithin(TermsOf(old) \ TermsOf(doc)) :
                  doc.id \notin ReturnedIds(EngineNext, q)
      ]_vars

\* C15's case: the replaced document had a term the new one lacks, a query
\* asks for that term, and another live document still matches it.
C15_Witness ==
    /\ result.op = "upsert"
    /\ result.ret = "Ok"
    /\ IsSome(result.prior)
    /\ \E q \in QueriesWithin(TermsOf(Unwrap(result.prior)) \ TermsOf(result.doc)) :
          search_or(index, Analyzed(q)) # {}

\* C16: a second upsert of the same document right after the first leaves
\* document_count() and the documents, total and scores of every search as
\* they were after the first.
C16_RepeatedUpsertChangesNothing ==
    [][(result'.op = "upsert_again" /\ result.op = "upsert") =>
         /\ result'.ret = "Ok"
         /\ document_count(EngineNext) = document_count(Engine)
         /\ AllSearches(EngineNext) = AllSearches(Engine)
      ]_vars

\* C16's case: the document upserted twice shares a term with another live
\* document that comes after it in that term's posting list.
C16_Witness ==
    /\ result.op = "upsert_again"
    /\ \E t \in DOMAIN index.index :
          /\ Len(index.index[t]) >= 2
          /\ index.index[t][Len(index.index[t])] = result.doc.id

\* C17: upsert(d) of an id that was not live, followed by delete(d.id),
\* brings document_count() back to its value before the upsert, and no
\* search returns d afterwards.
C17_DeleteUndoesInsert ==
    (result.op = "delete_upserted" /\ ~result.was_live) =>
        /\ result.ret = "Ok"
        /\ document_count(Engine) = result.count_before
        /\ \A q \in Queries : result.id \notin ReturnedIds(Engine, q)

\* C17's case: the document inserted and deleted had terms that documents
\* still live have too.
C17_Witness ==
    /\ result.op = "delete_upserted"
    /\ ~result.was_live
    /\ result.count_before = 2
    /\ Cardinality(search_or(index, <<"cat", "dog">>)) = 2

\* C19: closing the engine and opening it again on the same path gives the
\* index, the DocStats registry and avg_doc_length it had, hence the same
\* stats() and the same result for every search.
C19_ReopenRestoresEngine ==
    [][result'.op = "reopen" =>
         /\ index' = index
         /\ doc_stats' = doc_stats
         /\ avg_doc_length' = avg_doc_length
         /\ stats(EngineNext) = stats(Engine)
         /\ AllSearches(EngineNext) = AllSearches(Engine)
      ]_vars

----------------------------------------------------------------------------
(* Further properties of interleaved calls.                                 *)

\* Storage d holds what the in-memory state of e holds: the index as the
\* blob (no blob for an index never saved), the registry as the DocStats
\* rows, and a stored document for each registry entry, with that DocStats.
PersistedMatchesMemory(e) ==
    /\ \/ e.db.index = Some(e.index)
       \/ e.db.index = None /\ e.index = NewIndex
    /\ e.db.doc_stats = e.doc_stats
    /\ DOMAIN e.db.documents = DOMAIN e.doc_stats
    /\ \A d \in DOMAIN e.db.documents : DocStatsOf(e.db.documents[d]) = e.doc_stats[d]

\* C18: whenever no writer holds a lock, storage equals the in-memory
\* state.  A thread holds a write lock only inside one of its steps, so
\* no lock is held in any state of the interleaving.
C18_PersistedEqualsMemory == phase = "conc" => PersistedMatchesMemory(Engine)

----------------------------------------------------------------------------
(* Properties of the engine opened after the process stopped in a write.    *)

\* C20: the engine opened after a stop between the storage steps of an
\* upsert or delete has avg_doc_length equal to the mean of the loaded
\* DocStats lengths, and its index, its DocStats registry and the stored
\* documents refer to the same ids.
C20_OpenAfterCrashIsConsistent ==
    result.op = "recover" =>
        /\ avg_doc_length = mean_length(doc_stats)
        /\ DOMAIN doc_stats = DOMAIN db.documents
        /\ PostedIds(index) \subseteq DOMAIN db.documents
        /\ \A d \in DOMAIN db.documents :
              PostedTerms(index, d) = TermsOf(db.documents[d])

----------------------------------------------------------------------------
(* What a single caller reads after its own writes, and after clear.        *)

\* The queries that analyze to a single term, one of the given terms.
OneTermQueries(terms) ==
    {q \in Queries : Len(Analyzed(q)) = 1 /\ Analyzed(q)[1] \in terms}

\* C21: right after a successful upsert(d), get(d.id) returns d and a
\* search for any analyzed term of d includes d; right after a successful
\* delete(id), get(id) is absent and no search returns id.
C21_ReadYourWrites ==
    /\ (result.op = "upsert" /\ result.ret = "Ok") =>
          /\ get(Engine, result.doc.id) = Some(result.doc)
          /\ \A q \in OneTermQueries(TermsOf(result.doc)), options \in WholeListOptions :
                \A o \in AllSearches(Engine)[<<q, options>>] :
                    /\ o.ret = "Ok"
                    /\ result.doc \in Range(o.documents)
    /\ (result.op = "delete" /\ result.ret = "Ok") =>
          /\ get(Engine, result.id) = None
          /\ \A q \in Queries : result.id \notin ReturnedIds(Engine, q)

\* C21's case: the caller upserted a document with two terms over one that
\* had a single term, while another live document shares a term.
C21_Witness ==
    /\ result.op = "upsert"
    /\ result.ret = "Ok"
    /\ TermsOf(result.doc) = {"cat", "dog"}
    /\ IsSome(result.prior)
    /\ TermsOf(Unwrap(result.prior)) = {"cat"}
    /\ Len(index.index["cat"]) = 2

\* C22: after clear() document_count() is 0, stats() reports no documents
\* and no tokens, get is absent for every id and every search has total 0;
\* and every call made next returns what it returns on a new engine and
\* leaves the state it leaves there (or, for a read, the cleared state).
C22_ClearGivesEmptyEngine ==
    result.op = "clear" =>
        /\ document_count(Engine) = 0
        /\ stats(Engine).total_documents = 0
        /\ stats(Engine).total_tokens = 0
        /\ \A id \in DocIds : get(Engine, id) = None
        /\ \A x \in DOMAIN AllSearches(Engine) :
              \A o \in AllSearches(Engine)[x] : o.total = 0
        /\ AllSearches(Engine) = AllSearches(NewEngine)
        /\ \A doc \in Documents :
              upsert_document(Engine, doc, "none") = upsert_document(NewEngine, doc, "none")
        /\ \A id \in DocIds :
              delete_document_call(Engine, id, "none")
                  = delete_document_call(NewEngine, id, "none")
        /\ new(db) = NewEngine
        /\ clear(Engine) = Engine

\* C22's case: the engine cleared held documents with terms, so that the
\* average length clear leaves is not 0.
C22_Witness ==
    /\ result.op = "clear"
    /\ avg_doc_length # Zero
    /\ index = NewIndex
    /\ db = EmptyDb

----------------------------------------------------------------------------
(* Queries without terms, ranking order and index statistics.               *)

\* C23: a query that analyzes to no terms (empty, only separators, only
\* stopwords) returns no documents, total 0 and no scores, in either mode,
\* ranked or not, whatever the engine holds.
C23_BlankQueryReturnsNothing ==
    (result.op = "search" /\ result.query \in BlankQueries) =>
        /\ result.out.ret = "Ok"
        /\ result.out.documents = <<>>
        /\ result.out.total = 0
        /\ result.out.scores = None

\* C23's case: a ranked stopword-only query with an offset, on an engine
\* whose documents have terms.
C23_Witness ==
    /\ result.op = "search"
    /\ result.query = <<"t", "h", "e", " ", "a">>
    /\ result.options.use_ranking
    /\ result.options.offset = 2
    /\ Cardinality(PostedIds(index)) = 2
    /\ Cardinality(Live) = 3

\* The BM25 score the engine state gives a document for a query.
ScoreOf(id, query) == score(Analyzed(query), doc_stats[id], index, avg_doc_length)

\* C24: a ranked search returns its documents by score descending: the
\* scores are non-increasing, the result list the page is cut from is
\* sorted as a whole, the page is its slice from offset, and on a first
\* page no document left out scores strictly higher than one returned.
C24_RankedByScoreDescending ==
    (result.op = "search" /\ result.out.ret = "Ok" /\ IsSome(result.out.scores)) =>
        LET scores == Unwrap(result.out.scores)
            ids == result.out.sorted_ids
            documents == result.out.documents
            start == result.options.offset
        IN /\ \A i, j \in DOMAIN scores : i < j => scores[i] >= scores[j]
           /\ \A i, j \in DOMAIN ids :
                 i < j => ScoreOf(ids[i], result.query) >= ScoreOf(ids[j], result.query)
           /\ Len(scores) = Len(documents)
           /\ \A i \in DOMAIN documents :
                 /\ documents[i].id = ids[start + i]
                 /\ scores[i] = ScoreOf(documents[i].id, result.query)
           /\ start = 0 =>
                 \A i \in DOMAIN documents, j \in DOMAIN ids :
                     j > Len(documents) => ScoreOf(ids[j], result.query) <= scores[i]

\* C24's case: three ranked results, a first page of two with different
\* scores.
C24_Witness ==
    /\ result.op = "search"
    /\ result.options.use_ranking
    /\ result.options.offset = 0
    /\ result.options.limit = Some(2)
    /\ Len(result.out.sorted_ids) = 3
    /\ IsSome(result.out.scores)
    /\ Len(Unwrap(result.out.scores)) = 2
    /\ Unwrap(result.out.scores)[1] > Unwrap(result.out.scores)[2]

\* The distinct terms of the live documents, and the number of (term,
\* document) pairs among them.
LiveTerms == UNION {TermsOf(db.documents[d]) : d \in Live}

LivePostings == SumOver([d \in Live |-> Cardinality(TermsOf(db.documents[d]))], Live)

\* C27: stats() gives total_tokens as the number of distinct terms in the
\* index and avg_docs_per_token as the sum of the posting-list lengths over
\* the number of terms, 0 when there is no term; the terms and postings
\* counted are those of the live documents.
C27_StatsCountTermsAndPostings ==
    LET st == stats(Engine) IN
    /\ st.total_tokens = Cardinality(DOMAIN index.index)
    /\ st.total_tokens = Cardinality(LiveTerms)
    /\ st.avg_docs_per_token =
          IF LiveTerms = {} THEN <<0, 1>>
          ELSE <<LivePostings, Cardinality(LiveTerms)>>
    /\ DOMAIN index.index # {} =>
          st.avg_docs_per_token[1] =
              SumOver([t \in DOMAIN index.index |-> Len(index.index[t])], DOMAIN index.index)

\* C27's case: after a delete that emptied no posting list but shortened
\* one, two terms with three postings between them.
C27_Witness ==
    /\ result.op = "delete"
    /\ IsSome(result.prior)
    /\ TermsOf(Unwrap(result.prior)) # {}
    /\ stats(Engine).total_tokens = 2
    /\ stats(Engine).avg_docs_per_token = <<3, 2>>

\* C28: a ranked search gives one order for one engine state: whatever
\* order the candidate set is listed in, the documents come out the same,
\* ties included.
C28_RankedOrderIsDeterministic ==
    (result.op = "search" /\ result.options.use_ranking /\ result.out.ret = "Ok") =>
        \A o \in AllSearches(Engine)[<<result.query, result.options>>] :
            o.documents = result.out.documents

\* The terms BM25::score does not skip for a document: those with tf > 0.
ScoredTerms(ds) ==
    {t \in DOMAIN ds.term_frequencies : ds.term_frequencies[t] > 0}

\* C26: no division by zero reaches a score.  For every document of the
\* registry and every term the ranker does not skip for it, avg_doc_length
\* is greater than 0, the denominator of normalized_tf is greater than 0
\* and the logarithm of the idf is taken of a positive number, so the score
\* is finite.
C26_NoDivisionByZero ==
    \A d \in DOMAIN doc_stats : \A t \in ScoredTerms(doc_stats[d]) :
        LET tf == doc_stats[d].term_frequencies[t] IN
        /\ avg_doc_length.num > 0
        /\ avg_doc_length.den > 0
        /\ 8 * tf * avg_doc_length.num + 3 * avg_doc_length.num
              + 9 * doc_stats[d].length * avg_doc_length.den > 0
        /\ 2 * total_documents(index) + 2 > 0
        /\ 2 * doc_frequency(index, t) + 1 > 0

\* C26's case: a ranked search that scored two candidates on a term they
\* hold, after a delete of an id that was never live took the index's
\* document count below the term's document frequency.
C26_Witness ==
    /\ result.op = "search"
    /\ result.options.use_ranking
    /\ result.out.ret = "Ok"
    /\ result.out.total = 2
    /\ \A id \in Range(result.out.sorted_ids) :
          \E t \in Range(Analyzed(result.query)) : t \in ScoredTerms(doc_stats[id])
    /\ total_documents(index) < Cardinality(DOMAIN doc_stats)

\* The frequency of a term in a DocStats, 0 when the term is absent.
TermFrequency(ds, t) ==
    IF t \in DOMAIN ds.term_frequencies THEN ds.term_frequencies[t] ELSE 0

\* C25: in a ranked search, of two returned documents of equal length of
\* which one holds a query term three times and the other once, the one
\* with three occurrences has the strictly higher score.
C25_HigherFrequencyScoresHigher ==
    (result.op = "search" /\ result.options.use_ranking /\ result.out.ret = "Ok"
        /\ Len(Analyzed(result.query)) = 1) =>
        LET ids == result.out.sorted_ids
            scores == Unwrap(result.out.scores)
            t == Analyzed(result.query)[1]
        IN \A i, j \in DOMAIN ids :
              (/\ ids[i] \in Live
               /\ ids[j] \in Live
               /\ doc_stats[ids[i]].length = doc_stats[ids[j]].length
               /\ TermFrequency(doc_stats[ids[i]], t) = 3
               /\ TermFrequency(doc_stats[ids[j]], t) = 1)
              => scores[i] > scores[j]

\* The engine state after upserting the documents of a sequence one by one.
RECURSIVE UpsertEach(_, _)
UpsertEach(e, docs) ==
    IF docs = <<>> THEN e
    ELSE UpsertEach(upsert_document(e, Head(docs), "none").engine, Tail(docs))

\* C29: batch_insert(docs) succeeds, leaves the engine state that upserting
\* the documents one by one in order leaves, and issues exactly one flush
\* to storage, the one after the last upsert.
C29_BatchInsertFlushesOnce ==
    [][(result = NoResult /\ result'.op = "batch_insert") =>
         /\ result'.ret = "Ok"
         /\ EngineNext = UpsertEach(Engine, result'.docs)
         /\ result'.flushes = <<"flush">>
      ]_vars

\* C30: an upsert of a document with the empty id returns InvalidArgument
\* and leaves the index, the registry, avg_doc_length and storage as they
\* were.
C30_EmptyIdIsRejected ==
    [][(result = NoResult /\ result'.op = "upsert" /\ result'.doc.id = "") =>
         /\ result'.ret = "InvalidArgument"
         /\ EngineNext = Engine
      ]_vars

\* C32: after any sequence of add_document, remove_document and
\* update_document, no term of the index maps to an empty posting list and
\* no posting list holds a document id twice.
C32_PostingListsWellFormed ==
    \A t \in DOMAIN index.index :
        /\ index.index[t] # <<>>
        /\ \A i, j \in DOMAIN index.index[t] :
              i # j => index.index[t][i] # index.index[t][j]

\* C32's case: one term posted for three ids and another for one of them,
\* after four additions (the count exceeds the ids posted, so an id was
\* added again).
C32_Witness ==
    /\ DOMAIN index.index = {"cat", "dog"}
    /\ Len(index.index["cat"]) = 3
    /\ Len(index.index["dog"]) = 1
    /\ index.doc_count = MaxDocCount

\* C34: doc_count is at least the document frequency of every indexed
\* term, and every document a ranked search returns that holds a query
\* term has a strictly positive score.
C34_CountCoversFrequencies ==
    /\ \A t \in DOMAIN index.index :
          total_documents(index) >= doc_frequency(index, t)
    /\ (result.op = "search" /\ result.options.use_ranking
           /\ result.out.ret = "Ok" /\ result.options.offset = 0
           /\ result.options.limit = None) =>
          \A i \in DOMAIN result.out.sorted_ids :
              (/\ result.out.sorted_ids[i] \in DOMAIN doc_stats
               /\ \E t \in Range(Analyzed(result.query)) :
                     TermFrequency(doc_stats[result.out.sorted_ids[i]], t) > 0)
              => Unwrap(result.out.scores)[i] > 0

\* The distinct elements of a sequence, in order of first occurrence.
RECURSIVE Distinct(_)
Distinct(seq) ==
    IF seq = <<>> THEN <<>>
    ELSE LET front == Distinct(SubSeq(seq, 1, Len(seq) - 1))
             last == seq[Len(seq)]
         IN IF Contains(front, last) THEN front ELSE Append(front, last)

\* C33: the score of a returned document sums one contribution per
\* distinct query term: it is the score for the query's terms with each
\* repeated term taken once.
C33_RepeatedTermCountsOnce ==
    (result.op = "search" /\ result.options.use_ranking /\ result.out.ret = "Ok") =>
        \A i \in DOMAIN result.out.sorted_ids :
            result.out.sorted_ids[i] \in DOMAIN doc_stats =>
                Unwrap(result.out.scores)[i] =
                    score(Distinct(Analyzed(result.query)),
                          doc_stats[result.out.sorted_ids[i]], index, avg_doc_length)

\* The ids of the documents a search returned.
DocumentIds(out) == {out.documents[i].id : i \in DOMAIN out.documents}

\* C35: with no operation in progress, a whole-list search returns exactly
\* total documents, and the search with the same query and mode and the
\* other value of use_ranking returns the same set of ids, again total of
\* them, whatever order the candidates are listed in.
C35_RankedAndUnrankedAgree ==
    (result.op = "search" /\ result.out.ret = "Ok"
        /\ result.options.limit = None /\ result.options.offset = 0) =>
        LET other == [result.options EXCEPT !.use_ranking = ~@]
        IN /\ Len(result.out.documents) = result.out.total
           /\ \A c \in Orders(search_candidates(index, Analyzed(result.query),
                                                result.options.mode)) :
                 LET o == search(Engine, result.query, other, c)
                 IN /\ DocumentIds(o) = DocumentIds(result.out)
                    /\ Len(o.documents) = o.total
                    /\ o.total = result.out.total

\* The maximal runs of alphanumeric characters of a text, as pairs of first
\* and last position: every character of the run is alphanumeric and the
\* characters next to it, if any, are not.
MaximalRuns(text) ==
    {r \in (DOMAIN text) \X (DOMAIN text) :
        /\ r[1] <= r[2]
        /\ \A i \in r[1]..r[2] : is_alphanumeric(text[i])
        /\ r[1] = 1 \/ ~is_alphanumeric(text[r[1] - 1])
        /\ r[2] = Len(text) \/ ~is_alphanumeric(text[r[2] + 1])}

\* The k-th maximal run of a text in text order.
RunAt(text, k) ==
    CHOOSE r \in MaximalRuns(text) :
        Cardinality({q \in MaximalRuns(text) : q[1] < r[1]}) = k - 1

\* C36: tokenize(text) is the list of the maximal runs of alphanumeric
\* characters of text in text order; separators, runs of separators and
\* leading or trailing separators give no token, and no token is empty.
C36_TokensAreMaximalRuns ==
    result.op = "tokenize" =>
        /\ Len(result.tokens) = Cardinality(MaximalRuns(result.text))
        /\ \A k \in DOMAIN result.tokens :
              /\ result.tokens[k] # <<>>
              /\ result.tokens[k] =
                    SubSeq(result.text, RunAt(result.text, k)[1], RunAt(result.text, k)[2])

\* C36's case: a text that starts with a separator, has two separators in
\* a row between its two runs and ends with a separator.
C36_Witness ==
    /\ result.op = "tokenize"
    /\ result.text = <<",", "a", " ", ",", "T", " ">>
    /\ result.tokens = << <<"a">>, <<"T">> >>

\* A thread that is not blocked: its next step is a release, or an
\* acquisition that succeeds even when readers queue behind waiting
\* writers.
CanProceed(t) ==
    /\ ~Completed(t)
    /\ NextInstruction(t).act = "acquire" => CanAcquireQueued(t, NextInstruction(t))

\* C31: concurrent upsert, delete, search and clear calls never deadlock
\* on the index, doc_stats and avg_doc_length locks, and every call
\* eventually returns: while a call is unfinished some thread can proceed,
\* and each thread's call completes with Ok or an error.
C31_EveryCallCompletes ==
    /\ []((\E t \in LockThreads : ~Completed(t)) => \E t \in LockThreads : CanProceed(t))
    /\ \A t \in LockThreads : <>(Completed(t) /\ thr[t].ret \in {"Ok", "Err"})

\* C31's case: an upsert inside its stats block holds the doc_stats write
\* guard, a ranked search holding the index read guard waits for doc_stats,
\* and a clear waits for the index.
C31_Witness ==
    /\ phase = "locks"
    /\ \E t, u, w \in LockThreads :
          /\ thr[t].call = "upsert" /\ HeldMode(t, "doc_stats") = "write"
          /\ thr[u].call = "search_ranked" /\ HeldMode(u, "index") = "read"
          /\ ~Completed(u) /\ NextInstruction(u) = Acquire("doc_stats", "read")
          /\ thr[w].call = "clear"
          /\ ~Completed(w) /\ NextInstruction(w) = Acquire("index", "write")

=============================================================================
